---------------------------- MODULE Spec2Model ----------------------------
(***************************************************************************)
(* Context-aware dictation (dictation/dictation_context.py).               *)
(*                                                                         *)
(* The module models the AccessibilityContext data holder, the three       *)
(* overridable actions of ModActions and the dictation_peek entry point,   *)
(* together with the collaborators they call: the setting (capability      *)
(* gate), ui.focused_element, Element.attrs / Element.get, the             *)
(* per-application correction hook, actions.next (the fallback) and        *)
(* print (the diagnostics sink).                                           *)
(*                                                                         *)
(* Text is a sequence of one-character strings.  Python values that may be *)
(* None, or of an unexpected type, are records tagged by "kind".           *)
(***************************************************************************)
EXTENDS Integers, Sequences, FiniteSets

\* ------------------------------------------------------------------ bounds

\* Longest short text an element or the hook reports (besides LongText).
MaxLen == 2

\* Largest explicit window size tried on left_context / right_context
\* (besides the default).
MaxChars == 3

\* ------------------------------------------------------- program constants

DEFAULT_CONTEXT_CHARACTERS == 30

\* ------------------------------------------------------------------ values

Alphabet == <<"a", "b", "c", "d", "e", "f", "g", "h">>

Char(i) == Alphabet[((i - 1) % Len(Alphabet)) + 1]

\* The text of k characters "abcdefgh..." (neighbouring characters differ, so
\* a slice taken at a wrong offset is a different text).
Text(k) == [i \in 1..k |-> Char(i)]

\* A text longer than the default window, so that the window really clamps.
LongText == Text(DEFAULT_CONTEXT_CHARACTERS + 2)

Texts == {Text(k) : k \in 0..MaxLen} \cup {LongText}

\* Python objects: None, a str, or a value of another type (a number).
NoneV == [kind |-> "none", chars |-> <<>>]
Str(s) == [kind |-> "str", chars |-> s]
NumV == [kind |-> "num", chars |-> <<>>]

\* talon.types.Span, None, or an object that has no .left / .right.
Span(l, r) == [kind |-> "span", left |-> l, right |-> r]
NoneSpan == [kind |-> "none", left |-> 0, right |-> 0]
BadSpan == [kind |-> "bad", left |-> 0, right |-> 0]

\* A selection whose .left is an offset and whose .right is None.
HalfSpan == [kind |-> "noright", left |-> 1, right |-> 0]

\* Selections an element or the hook may report: every pair of offsets up to
\* one past the longest short text (in order or not, in range or not), a
\* negative one, and one deep inside LongText.
Offsets == 0 .. MaxLen + 1

Spans ==
    {Span(l, r) : l \in Offsets, r \in Offsets}
    \cup {Span(-1, -1),
          Span(DEFAULT_CONTEXT_CHARACTERS + 1, DEFAULT_CONTEXT_CHARACTERS + 1)}

\* What el.get("AXValue") may return.
AXValues == {NoneV, NumV} \cup {Str(t) : t \in Texts}

\* What el.get("AXSelectedTextRange") may return.
AXRanges == {NoneSpan, BadSpan, HalfSpan} \cup Spans

\* ui.Element: None, or an element whose attrs list is empty or not.
NoEl == [kind |-> "none", hasAttrs |-> FALSE]
El(a) == [kind |-> "el", hasAttrs |-> a]
Elements == {NoEl, El(FALSE), El(TRUE)}

\* The pair dictation_peek and actions.next return.
Pair(b, a) == [kind |-> "pair", before |-> b, after |-> a]
NoResult == [kind |-> "none", before |-> NoneV, after |-> NoneV]

\* Pairs the fallback (the keystroke method) may return.
FallbackTexts == {NoneV, Str(<<"x">>)}
FallbackPairs == {Pair(b, a) : b \in FallbackTexts, a \in FallbackTexts}


\* ---------------------------------------------------- AccessibilityContext

\* AccessibilityContext(content=..., selection=...); NoneCtx is None.
AccessibilityContext(c, s) == [kind |-> "ctx", content |-> c, selection |-> s]
NoneCtx == [kind |-> "none", content |-> NoneV, selection |-> NoneSpan]

\* Contexts an application-specific override of the hook may return: any
\* content with any selection (the resolver does not constrain overrides).
HookContexts == {AccessibilityContext(c, s) : c \in AXValues, s \in AXRanges}

Max(a, b) == IF a >= b THEN a ELSE b
Min(a, b) == IF a <= b THEN a ELSE b

\* Python's index normalisation in s[i:j]: a negative index counts from the
\* end, and every index is clamped into 0..len(s).
SliceIndex(k, n) == IF k < 0 THEN Max(0, k + n) ELSE Min(k, n)

\* Python's s[i:j] on a sequence.
PySlice(s, i, j) ==
    LET lo == SliceIndex(i, Len(s))
        hi == SliceIndex(j, Len(s))
    IN  IF lo < hi THEN SubSeq(s, lo + 1, hi) ELSE <<>>

\* The exception left_context raises on this context, or "none": reading
\* .left of a selection that has none fails first, slicing a content that is
\* no str fails next.
left_context_exc(ctx) ==
    IF ctx.selection.kind \notin {"span", "noright"} THEN "AttributeError"
    ELSE IF ctx.content.kind # "str" THEN "TypeError"
    ELSE "none"

\* The exception right_context raises on this context, or "none": reading
\* .right of a selection that has none fails first, adding num_chars to a
\* .right that is None fails next, len() of a content that is no str last.
right_context_exc(ctx) ==
    IF ctx.selection.kind \notin {"span", "noright"} THEN "AttributeError"
    ELSE IF ctx.selection.kind = "noright" THEN "TypeError"
    ELSE IF ctx.content.kind # "str" THEN "TypeError"
    ELSE "none"

\* left_context without max(0, ...): a negative start wraps around.
left_context_unclamped(ctx, num_chars) ==
    LET start == ctx.selection.left - num_chars
    IN  Str(PySlice(ctx.content.chars, start, ctx.selection.left))

left_context(ctx, num_chars) ==
    LET start == Max(0, ctx.selection.left - num_chars)
    IN  Str(PySlice(ctx.content.chars, start, ctx.selection.left))

right_context(ctx, num_chars) ==
    LET end == Min(ctx.selection.right + num_chars, Len(ctx.content.chars))
    IN  Str(PySlice(ctx.content.chars, ctx.selection.right, end))

\* ------------------------------------------------------------------- state

VARIABLES
    setting_accessibility_dictation, \* the capability gate (a talon setting)
    op,           \* the action being executed, "none" between calls
    pc,           \* where the executing action stands
    left, right,  \* dictation_peek's arguments
    el,           \* the element passed to / returned by the actions
    selection,    \* accessibility_create_dictation_context's local
    context,      \* the context under construction / returned
    before, after,\* dictation_peek's locals
    result,       \* the pair dictation_peek returned
    exc,          \* the exception in flight, or propagated to the caller
    retLine,      \* the source line of the return statement reached
    log,          \* what was printed to the diagnostics sink
    calls,        \* the collaborator calls made so far, in order
    nextArgs,     \* the arguments of each actions.next call
    fallbackRet,  \* the pair the last actions.next call returned
    gateAtCall,   \* the setting when the action was called (dictation_peek
                  \* reads it then, at line 120)
    gateAtCreate, \* the setting as accessibility_create_dictation_context
                  \* read it (line 79): "unread", "on" or "off"
    axValue,      \* what el.get("AXValue") returned
    selAbsent,    \* whether el.get("AXSelectedTextRange") returned None
    hookKind,     \* "default" or "override": which hook implementation ran
    adjusted,     \* the context the hook returned
    num_chars,    \* the window size given to left_context / right_context
    lastGate      \* the setting as the previous dictation_peek read it

vars == <<setting_accessibility_dictation, op, pc, left, right, el, selection,
          context, before, after, result, exc, retLine, log, calls, nextArgs,
          fallbackRet, gateAtCall, gateAtCreate, axValue, selAbsent, hookKind,
          adjusted, num_chars, lastGate>>

\* The frame of an action that is not running.
Locals ==
    /\ left = FALSE /\ right = FALSE
    /\ el = NoEl
    /\ selection = NoneSpan
    /\ context = NoneCtx
    /\ before = NoneV /\ after = NoneV
    /\ result = NoResult
    /\ exc = "none"
    /\ retLine = 0
    /\ log = <<>> /\ calls = <<>> /\ nextArgs = <<>>
    /\ fallbackRet = NoResult
    /\ gateAtCall = FALSE
    /\ gateAtCreate = "unread"
    /\ axValue = NoneV
    /\ selAbsent = FALSE
    /\ hookKind = "none"
    /\ adjusted = NoneCtx
    /\ num_chars = DEFAULT_CONTEXT_CHARACTERS

Init ==
    /\ setting_accessibility_dictation \in BOOLEAN
    /\ op = "none"
    /\ pc = "idle"
    /\ lastGate = FALSE
    /\ Locals


\* ----------------------------------------------------------- small pieces

\* accessibility_dictation_enabled stuck at true.
accessibility_dictation_enabled_always == TRUE

\* ModActions.accessibility_dictation_enabled: the setting, read on each call.
accessibility_dictation_enabled == setting_accessibility_dictation

\* peek_gate_off answering from the value read by the previous invocation.
peek_gate_off_cached == ~lastGate

\* peek_gate_off with the gate check lost.
peek_gate_off_never == FALSE

\* The guard of dictation_peek's first return: the setting is off.
peek_gate_off == ~setting_accessibility_dictation

\* no_accessibility_support with "or not el.attrs" lost.
no_accessibility_support_el_only(e) == e.kind = "none"

\* "if not el or not el.attrs": no accessibility support.
no_accessibility_support(e) == e.kind = "none" \/ ~e.hasAttrs

\* resolve_selection with the None case lost.
resolve_selection_as_read(s) == s

\* "if selection is None: selection = Span(0, 0)".
resolve_selection(s) == IF s.kind = "none" THEN Span(0, 0) ELSE s

\* The default hook returns the context it is given.
accessibility_adjust_context_for_application(e, c) == c

\* validate_context written "if not context.content": an empty text counts as
\* missing.
validate_context_falsy(c) ==
    IF c.content.kind = "none" \/ c.content = Str(<<>>) \/ c.selection.kind = "none"
    THEN NoneCtx ELSE c

\* validate_context with both tests lost.
validate_context_never(c) == c

\* validate_context with the selection test lost.
validate_context_content_only(c) ==
    IF c.content.kind = "none" THEN NoneCtx ELSE c

\* "if context.content is None or context.selection is None: return None".
validate_context(c) ==
    IF c.content.kind = "none" \/ c.selection.kind = "none" THEN NoneCtx ELSE c

\* peek_before with the "if left" test lost.
peek_before_always(c, l) == left_context(c, DEFAULT_CONTEXT_CHARACTERS)

\* "if left: before = context.left_context()" and its twin for right.
peek_before(c, l) == IF l THEN left_context(c, DEFAULT_CONTEXT_CHARACTERS) ELSE NoneV
peek_after(c, r) == IF r THEN right_context(c, DEFAULT_CONTEXT_CHARACTERS) ELSE NoneV

\* The diagnostics dictation_peek prints.
Warning == [level |-> "warning", kind |-> "none"]
Error(e) == [level |-> "error", kind |-> e]

\* Where accessibility_create_dictation_context returns to: dictation_peek's
\* line 125, or the caller of the action when it was called on its own.
create_returns_to == IF op = "dictation_peek" THEN "check" ELSE "done"

\* raise_lands_at without the try block: the exception leaves the action.
raise_lands_at_caller == "done"

\* Where an exception raised below dictation_peek's try block lands: its
\* except clause, or the caller of an action called on its own.
raise_lands_at == IF op = "dictation_peek" THEN "except" ELSE "done"

\* The call actions.next(l, r) made after the calls `made`; it returns a pair,
\* which the return statement at `line` hands to the caller, or it raises,
\* and the exception lands at `landing`.
actions_next(l, r, made, line, landing) ==
    /\ calls' = made \o <<"actions.next">>
    /\ nextArgs' = Append(nextArgs, <<l, r>>)
    /\ \/ \E p \in FallbackPairs :
            /\ fallbackRet' = p
            /\ result' = p
            /\ retLine' = line
            /\ exc' = "none"
            /\ pc' = "done"
       \/ /\ exc' = "FallbackError"
          /\ pc' = landing
          /\ UNCHANGED <<fallbackRet, result, retLine>>

\* --------------------------------------------------------- dictation_peek

\* Lines 116-121: the call, the gate check and, with the gate off, the
\* delegation to actions.next.
dictation_peek ==
    /\ pc = "idle"
    /\ \E l \in BOOLEAN, r \in BOOLEAN :
        /\ op' = "dictation_peek"
        /\ left' = l /\ right' = r
        /\ before' = NoneV /\ after' = NoneV
        /\ gateAtCall' = setting_accessibility_dictation
        /\ IF peek_gate_off
           THEN actions_next(l, r, <<"setting.get">>, 121, "except")
           ELSE /\ calls' = <<"setting.get">>
                /\ pc' = "resolve"
                /\ UNCHANGED <<nextArgs, fallbackRet, result, retLine, exc>>
    /\ UNCHANGED <<setting_accessibility_dictation, el, selection, context, log,
                   gateAtCreate, axValue, selAbsent, hookKind, adjusted,
                   num_chars, lastGate>>

\* Line 123: el = actions.user.dictation_current_element(), by default
\* ui.focused_element(); it returns an element or None, or it raises.
dictation_peek_resolve ==
    /\ pc = "resolve"
    /\ calls' = Append(calls, "ui.focused_element")
    /\ \/ \E e \in Elements : el' = e /\ pc' = "create" /\ exc' = exc
       \/ el' = el /\ pc' = "except" /\ exc' = "RuntimeError"
    /\ UNCHANGED <<setting_accessibility_dictation, op, left, right, selection,
                   context, before, after, result, retLine, log, nextArgs,
                   fallbackRet, gateAtCall, gateAtCreate, axValue, selAbsent, hookKind,
                   adjusted, num_chars, lastGate>>

\* Lines 125-134 and 144: without a context, the warning and the delegation
\* to actions.next; with one, the two windows and the return of the pair.
dictation_peek_check ==
    /\ pc = "check"
    /\ IF context.kind = "none"
       THEN /\ log' = Append(log, Warning)
            /\ actions_next(left, right, Append(calls, "print"), 129, "except")
            /\ UNCHANGED <<before, after>>
       ELSE /\ UNCHANGED <<log, calls, nextArgs, fallbackRet>>
            /\ IF left /\ left_context_exc(context) # "none"
               THEN /\ exc' = left_context_exc(context)
                    /\ pc' = "except"
                    /\ UNCHANGED <<before, after, result, retLine>>
               ELSE /\ before' = peek_before(context, left)
                    /\ IF right /\ right_context_exc(context) # "none"
                       THEN /\ exc' = right_context_exc(context)
                            /\ pc' = "except"
                            /\ UNCHANGED <<after, result, retLine>>
                       ELSE /\ after' = peek_after(context, right)
                            /\ result' = Pair(before', after')
                            /\ retLine' = 144
                            /\ pc' = "done"
                            /\ exc' = exc
    /\ UNCHANGED <<setting_accessibility_dictation, op, left, right, el,
                   selection, context, gateAtCall, gateAtCreate, axValue, selAbsent, hookKind,
                   adjusted, num_chars, lastGate>>

\* dictation_peek_except without its return: after the diagnostics, control
\* falls through to "return before, after".
dictation_peek_except_fallthrough ==
    /\ pc = "except"
    /\ log' = Append(log, Error(exc))
    /\ calls' = calls \o <<"print", "traceback.print_exc">>
    /\ result' = Pair(before, after)
    /\ retLine' = 144
    /\ exc' = "none"
    /\ pc' = "done"
    /\ UNCHANGED <<setting_accessibility_dictation, op, left, right, el,
                   selection, context, before, after, nextArgs, fallbackRet,
                   gateAtCall, gateAtCreate, axValue, selAbsent, hookKind,
                   adjusted, num_chars, lastGate>>

\* dictation_peek_except with the delegation forgotten: the failure is logged
\* and raised again.
dictation_peek_except_reraise ==
    /\ pc = "except"
    /\ log' = Append(log, Error(exc))
    /\ calls' = calls \o <<"print", "traceback.print_exc">>
    /\ pc' = "done"
    /\ UNCHANGED <<setting_accessibility_dictation, op, left, right, el,
                   selection, context, before, after, result, exc, retLine,
                   nextArgs, fallbackRet, gateAtCall, gateAtCreate, axValue,
                   selAbsent, hookKind, adjusted, num_chars, lastGate>>

\* Lines 135-142: the except clause prints the failure's kind and message and
\* the traceback, then delegates to actions.next outside any try block.
dictation_peek_except ==
    /\ pc = "except"
    /\ log' = Append(log, Error(exc))
    /\ actions_next(left, right, calls \o <<"print", "traceback.print_exc">>,
                    142, "done")
    /\ UNCHANGED <<setting_accessibility_dictation, op, left, right, el,
                   selection, context, before, after, gateAtCall, gateAtCreate, axValue,
                   selAbsent, hookKind, adjusted, num_chars, lastGate>>


\* ------------------------------------ accessibility_create_dictation_context

\* Lines 79-84: the gate, read again, then "not el or not el.attrs" (el.attrs
\* is read only of an element that is not None, and the read may raise).
create_context_support ==
    /\ pc = "create"
    /\ gateAtCreate' = IF setting_accessibility_dictation THEN "on" ELSE "off"
    /\ IF ~accessibility_dictation_enabled
       THEN /\ calls' = Append(calls, "setting.get")
            /\ context' = NoneCtx
            /\ pc' = create_returns_to
            /\ exc' = exc
       ELSE IF el.kind = "none"
       THEN /\ calls' = Append(calls, "setting.get")
            /\ context' = NoneCtx
            /\ pc' = create_returns_to
            /\ exc' = exc
       ELSE /\ calls' = calls \o <<"setting.get", "el.attrs">>
            /\ \/ /\ context' = NoneCtx
                  /\ pc' = IF no_accessibility_support(el)
                           THEN create_returns_to ELSE "get_selection"
                  /\ exc' = exc
               \/ /\ exc' = "RuntimeError"
                  /\ pc' = raise_lands_at
                  /\ context' = context
    /\ UNCHANGED <<setting_accessibility_dictation, op, left, right, el,
                   selection, before, after, result, retLine, log, nextArgs,
                   fallbackRet, gateAtCall, axValue, selAbsent, hookKind,
                   adjusted, num_chars, lastGate>>

\* create_context_selection followed by the hook at once: the AXValue read
\* is left out.
create_context_selection_then_hook ==
    /\ pc = "get_selection"
    /\ calls' = Append(calls, "el.get:AXSelectedTextRange")
    /\ \E s \in AXRanges :
          /\ selection' = resolve_selection(s)
          /\ selAbsent' = (s.kind = "none")
          /\ pc' = "adjust"
          /\ exc' = exc
    /\ UNCHANGED <<setting_accessibility_dictation, op, left, right, el,
                   context, before, after, result, retLine, log, nextArgs,
                   fallbackRet, gateAtCall, gateAtCreate, axValue, hookKind,
                   adjusted, num_chars, lastGate>>

\* Lines 89-91: selection = el.get("AXSelectedTextRange"), None read as
\* Span(0, 0).
create_context_selection ==
    /\ pc = "get_selection"
    /\ calls' = Append(calls, "el.get:AXSelectedTextRange")
    /\ \/ \E s \in AXRanges :
            /\ selection' = resolve_selection(s)
            /\ selAbsent' = (s.kind = "none")
            /\ pc' = "get_value"
            /\ exc' = exc
       \/ /\ exc' = "RuntimeError"
          /\ pc' = raise_lands_at
          /\ UNCHANGED <<selection, selAbsent>>
    /\ UNCHANGED <<setting_accessibility_dictation, op, left, right, el,
                   context, before, after, result, retLine, log, nextArgs,
                   fallbackRet, gateAtCall, gateAtCreate, axValue, hookKind, adjusted,
                   num_chars, lastGate>>

\* Line 93: context = AccessibilityContext(content=el.get("AXValue"),
\* selection=selection).  The local selection is not read again: the model
\* drops it here.
create_context_value ==
    /\ pc = "get_value"
    /\ calls' = Append(calls, "el.get:AXValue")
    /\ \/ \E v \in AXValues :
            /\ axValue' = v
            /\ context' = AccessibilityContext(v, selection)
            /\ selection' = NoneSpan
            /\ pc' = "adjust"
            /\ exc' = exc
       \/ /\ exc' = "RuntimeError"
          /\ pc' = raise_lands_at
          /\ UNCHANGED <<axValue, context, selection>>
    /\ UNCHANGED <<setting_accessibility_dictation, op, left, right, el,
                   before, after, result, retLine, log, nextArgs, fallbackRet,
                   gateAtCall, gateAtCreate, selAbsent, hookKind, adjusted, num_chars, lastGate>>

\* Lines 99-102 on the context `c` the hook returned: None has no .content
\* (AttributeError); a context missing a field gives None; else c.
create_context_validate(c) ==
    IF c.kind = "none"
    THEN /\ exc' = "AttributeError"
         /\ pc' = raise_lands_at
         /\ context' = NoneCtx
    ELSE /\ context' = validate_context(c)
         /\ pc' = create_returns_to
         /\ exc' = exc

\* Lines 96-102: the correction hook (the default, or an application's
\* override, which may return any context or None, or raise), then the
\* validation of what it returned.  An exception leaves the frame: the
\* caller gets no context.
create_context_adjust ==
    /\ pc = "adjust"
    /\ calls' = Append(calls, "accessibility_adjust_context_for_application")
    /\ \/ /\ hookKind' = "default"
          /\ adjusted' = accessibility_adjust_context_for_application(el, context)
          /\ create_context_validate(adjusted')
       \/ /\ hookKind' = "override"
          /\ \E c \in HookContexts \cup {NoneCtx} :
                /\ adjusted' = c
                /\ create_context_validate(c)
       \/ /\ hookKind' = "override"
          /\ exc' = "RuntimeError"
          /\ pc' = raise_lands_at
          /\ context' = NoneCtx
          /\ UNCHANGED adjusted
    /\ UNCHANGED <<setting_accessibility_dictation, op, left, right, el,
                   selection, before, after, result, retLine, log, nextArgs,
                   fallbackRet, gateAtCall, gateAtCreate, axValue, selAbsent, num_chars, lastGate>>

\* ------------------------------------------- the actions called on their own

\* ModActions.dictation_current_element, called by another module: lines
\* 55-61, ui.focused_element() whatever the setting says.
dictation_current_element ==
    /\ pc = "idle"
    /\ gateAtCall' = setting_accessibility_dictation
    /\ op' = "dictation_current_element"
    /\ calls' = <<"ui.focused_element">>
    /\ \/ \E e \in Elements : el' = e /\ exc' = exc
       \/ el' = el /\ exc' = "RuntimeError"
    /\ pc' = "done"
    /\ UNCHANGED <<setting_accessibility_dictation, left, right, selection,
                   context, before, after, result, retLine, log, nextArgs,
                   fallbackRet, gateAtCreate, axValue, selAbsent, hookKind,
                   adjusted, num_chars, lastGate>>

\* ModActions.accessibility_create_dictation_context(el), called by another
\* module with any element.
accessibility_create_dictation_context ==
    /\ pc = "idle"
    /\ gateAtCall' = setting_accessibility_dictation
    /\ op' = "accessibility_create_dictation_context"
    /\ \E e \in Elements : el' = e
    /\ pc' = "create"
    /\ UNCHANGED <<setting_accessibility_dictation, left, right, selection,
                   context, before, after, result, exc, retLine, log, calls,
                   nextArgs, fallbackRet, gateAtCreate, axValue, selAbsent,
                   hookKind, adjusted, num_chars, lastGate>>

\* The caller takes what the action returned (or raised); the frame is gone.
Return ==
    /\ pc = "done"
    /\ op' = "none"
    /\ pc' = "idle"
    /\ left' = FALSE /\ right' = FALSE
    /\ el' = NoEl
    /\ selection' = NoneSpan
    /\ context' = NoneCtx
    /\ before' = NoneV /\ after' = NoneV
    /\ result' = NoResult
    /\ exc' = "none"
    /\ retLine' = 0
    /\ log' = <<>> /\ calls' = <<>> /\ nextArgs' = <<>>
    /\ fallbackRet' = NoResult
    /\ gateAtCall' = FALSE
    /\ gateAtCreate' = "unread"
    /\ axValue' = NoneV
    /\ selAbsent' = FALSE
    /\ hookKind' = "none"
    /\ adjusted' = NoneCtx
    /\ lastGate' = IF op = "dictation_peek" THEN gateAtCall ELSE lastGate
    /\ UNCHANGED <<setting_accessibility_dictation, num_chars>>

\* External configuration changes the setting, at any time.
setting_changed ==
    /\ setting_accessibility_dictation' = ~setting_accessibility_dictation
    /\ UNCHANGED <<op, pc, left, right, el, selection, context, before, after,
                   result, exc, retLine, log, calls, nextArgs, fallbackRet,
                   gateAtCall, gateAtCreate, axValue, selAbsent, hookKind, adjusted,
                   num_chars, lastGate>>

\* One step of the action that is executing.
Step ==
    \/ dictation_peek_resolve
    \/ create_context_support
    \/ create_context_selection
    \/ create_context_value
    \/ create_context_adjust
    \/ dictation_peek_check
    \/ dictation_peek_except

Next ==
    \/ dictation_peek
    \/ dictation_current_element
    \/ accessibility_create_dictation_context
    \/ Step
    \/ Return
    \/ setting_changed

Spec == Init /\ [][Next]_vars


\* One step of the executing action is always taken: the code is synchronous.
FairSpec == Spec /\ WF_vars(Step)

\* ------------------------------ left_context / right_context on their own

\* The spec's scenario text.
HelloWorld == <<"h", "e", "l", "l", "o", " ", "w", "o", "r", "l", "d">>

\* Selections that satisfy the data model's invariant on the text t.
ValidSpans(t) ==
    {sp \in {Span(l, r) : l \in 0..Len(t), r \in 0..Len(t)} : sp.left <= sp.right}

\* Contexts that satisfy the data model's invariant.
ValidContexts ==
    UNION {{AccessibilityContext(Str(t), sp) : sp \in ValidSpans(t)} :
              t \in Texts \cup {HelloWorld}}

\* Window sizes given to the two methods.
Windows == (0 .. MaxChars) \cup {DEFAULT_CONTEXT_CHARACTERS}

InitCtx ==
    /\ setting_accessibility_dictation = FALSE
    /\ op = "none"
    /\ pc = "methods"
    /\ left = FALSE /\ right = FALSE
    /\ el = NoEl
    /\ selection = NoneSpan
    /\ context \in ValidContexts
    /\ before = NoneV /\ after = NoneV
    /\ result = NoResult
    /\ exc = "none"
    /\ retLine = 0
    /\ log = <<>> /\ calls = <<>> /\ nextArgs = <<>>
    /\ fallbackRet = NoResult
    /\ gateAtCall = FALSE
    /\ gateAtCreate = "unread"
    /\ axValue = NoneV
    /\ selAbsent = FALSE
    /\ hookKind = "none"
    /\ adjusted = NoneCtx
    /\ num_chars \in Windows
    /\ lastGate = FALSE

\* before = context.left_context(num_chars)
call_left_context ==
    /\ pc = "methods"
    /\ before.kind = "none"
    /\ before' = left_context(context, num_chars)
    /\ UNCHANGED <<setting_accessibility_dictation, op, pc, left, right, el,
                   selection, context, after, result, exc, retLine, log, calls,
                   nextArgs, fallbackRet, gateAtCall, gateAtCreate, axValue,
                   selAbsent, hookKind, adjusted, num_chars, lastGate>>

\* after = context.right_context(num_chars)
call_right_context ==
    /\ pc = "methods"
    /\ after.kind = "none"
    /\ after' = right_context(context, num_chars)
    /\ UNCHANGED <<setting_accessibility_dictation, op, pc, left, right, el,
                   selection, context, before, result, exc, retLine, log, calls,
                   nextArgs, fallbackRet, gateAtCall, gateAtCreate, axValue,
                   selAbsent, hookKind, adjusted, num_chars, lastGate>>

NextCtx == call_left_context \/ call_right_context

SpecCtx == InitCtx /\ [][NextCtx]_vars

\* ------------------------------------------------- vocabulary of the claims

Called(c) == \E i \in DOMAIN calls : calls[i] = c

Peeking == op = "dictation_peek"

\* dictation_peek has ended: it returned, or an exception left it.
Peeked == op = "dictation_peek" /\ pc = "done"

IsTextOrNone(v) == v.kind \in {"none", "str"}

IsPair(p) == p.kind = "pair" /\ IsTextOrNone(p.before) /\ IsTextOrNone(p.after)

ErrorLogged == \E i \in DOMAIN log : log[i].level = "error"

\* Some actions.next call of this invocation raised.
FallbackFailed ==
    exc = "FallbackError" \/ \E i \in DOMAIN log : log[i] = Error("FallbackError")

\* The collaborators of the accessibility subsystem.
AccessibilityCalls ==
    {"ui.focused_element", "el.attrs", "el.get:AXSelectedTextRange",
     "el.get:AXValue", "accessibility_adjust_context_for_application"}

\* The data model's invariant.
CtxInvariant(c) ==
    /\ c.kind = "ctx"
    /\ c.content.kind = "str"
    /\ c.selection.kind = "span"
    /\ 0 <= c.selection.left
    /\ c.selection.left <= c.selection.right
    /\ c.selection.right <= Len(c.content.chars)

\* ------------------------------------------------------------------ claims

\* C3: for every content, every selection 0 <= left <= right <= len(content)
\* and every n >= 0, left_context(n) is the min(n, left) characters of content
\* that end at left, and right_context(n) is the min(n, len(content) - right)
\* characters that start at right.
C3_Windows ==
    LET c == context.content.chars
        l == context.selection.left
        r == context.selection.right
        kl == Min(num_chars, l)
        kr == Min(num_chars, Len(c) - r)
    IN  /\ before.kind = "str" =>
            /\ Len(before.chars) = kl
            /\ \A i \in 1..kl : before.chars[i] = c[l - kl + i]
        /\ after.kind = "str" =>
            /\ Len(after.chars) = kr
            /\ \A i \in 1..kr : after.chars[i] = c[r + i]

\* C3's case: "hello world" with the cursor at 5 and the default window gives
\* "hello" and " world".
C3_Witness ==
    /\ context = AccessibilityContext(Str(HelloWorld), Span(5, 5))
    /\ num_chars = DEFAULT_CONTEXT_CHARACTERS
    /\ before = Str(<<"h", "e", "l", "l", "o">>)
    /\ after = Str(<<" ", "w", "o", "r", "l", "d">>)


\* C1: with the gate on, whatever the focus provider, the attribute reads and
\* the hook return or raise, and provided actions.next returns a pair,
\* dictation_peek returns a (text|None, text|None) pair and lets no exception
\* out; when an exception was raised, the pair is the one actions.next
\* returned, handed back by the except clause.
C1_NeverFailsCaller ==
    (Peeked /\ gateAtCall /\ ~FallbackFailed) =>
        /\ exc = "none"
        /\ IsPair(result)
        /\ ErrorLogged => (result = fallbackRet /\ retLine = 142)

\* C1's case: the hook raised, the failure was logged, the fallback's pair
\* came back.
C1_Witness ==
    /\ Peeked /\ gateAtCall /\ ~FallbackFailed
    /\ hookKind = "override" /\ adjusted = NoneCtx
    /\ log = <<Error("RuntimeError")>>
    /\ exc = "none"
    /\ result = fallbackRet /\ IsPair(result)

\* C2: with the gate off when dictation_peek is called, the invocation calls
\* neither the focus provider nor the attribute reader nor the hook, every
\* actions.next call gets dictation_peek's own arguments, and the pair
\* returned is the pair actions.next returned.
C2_GateOffDelegates ==
    (Peeking /\ ~gateAtCall) =>
        /\ \A i \in DOMAIN calls : calls[i] \notin AccessibilityCalls
        /\ \A i \in DOMAIN nextArgs : nextArgs[i] = <<left, right>>
        /\ (pc = "done" /\ exc = "none") =>
              (result = fallbackRet /\ result \in FallbackPairs /\ Len(nextArgs) >= 1)

\* C2's case: gate off, dictation_peek(true, true) returned the fallback's
\* pair from line 121 after a single actions.next call.
C2_Witness ==
    /\ Peeked /\ ~gateAtCall /\ left /\ right
    /\ calls = <<"setting.get", "actions.next">>
    /\ retLine = 121
    /\ result = fallbackRet /\ result = Pair(Str(<<"x">>), NoneV)

\* The element is None or reports no attributes, and reading el.attrs did
\* not raise.
NoSupportFound ==
    /\ op \in {"dictation_peek", "accessibility_create_dictation_context"}
    /\ gateAtCreate = "on"
    /\ (el.kind = "none" \/ ~el.hasAttrs)
    /\ exc # "RuntimeError"
    /\ \A i \in DOMAIN log : log[i] # Error("RuntimeError")

\* C4: with the gate on, for an element that is None or has no attributes,
\* accessibility_create_dictation_context returns None without reading
\* AXSelectedTextRange or AXValue and without calling the hook, and
\* dictation_peek warns and returns the fallback's pair.
C4_NoSupportFallsBack ==
    NoSupportFound =>
        /\ context = NoneCtx
        /\ ~Called("el.get:AXSelectedTextRange")
        /\ ~Called("el.get:AXValue")
        /\ ~Called("accessibility_adjust_context_for_application")
        /\ pc \in {"check", "except", "done"}
        /\ Peeked => (log # <<>> /\ log[1] = Warning)
        /\ (Peeked /\ exc = "none") =>
              (result = fallbackRet /\ retLine \in {129, 142})

\* C4's case: an element without attributes, dictation_peek returned the
\* fallback's pair from line 129.
C4_Witness ==
    /\ Peeked /\ gateAtCall /\ gateAtCreate = "on"
    /\ el = El(FALSE)
    /\ Called("el.attrs")
    /\ log = <<Warning>>
    /\ retLine = 129 /\ result = fallbackRet /\ exc = "none"

\* The hook returned a context.
HookReturned == hookKind # "none" /\ adjusted.kind = "ctx"

\* C5: when the context the hook returned has None content or None selection,
\* accessibility_create_dictation_context returns None and dictation_peek
\* returns the fallback's pair, whatever the element's own attributes were;
\* when the hook's context has both, that context is returned, whatever the
\* element's own attributes were.
C5_HookDecides ==
    /\ (HookReturned /\ (adjusted.content.kind = "none" \/ adjusted.selection.kind = "none")) =>
          /\ context = NoneCtx
          /\ (Peeked /\ exc = "none") =>
                (result = fallbackRet /\ retLine \in {129, 142})
          /\ Peeked => (log # <<>> /\ log[1] = Warning)
    /\ (HookReturned /\ adjusted.content.kind # "none" /\ adjusted.selection.kind # "none") =>
          (context = adjusted /\ context.kind = "ctx")

\* C5's case: both raw attributes were valid, the hook nulled the content,
\* dictation_peek fell back.
C5_Witness ==
    /\ Peeked /\ gateAtCall
    /\ axValue = Str(Text(MaxLen)) /\ ~selAbsent
    /\ hookKind = "override"
    /\ adjusted.content = NoneV /\ adjusted.selection = Span(1, 1)
    /\ context = NoneCtx
    /\ retLine = 129 /\ result = fallbackRet

\* C6: on the Success path the pair is (L, R), L = context.left_context(30)
\* when want_left and None otherwise, R = context.right_context(30) when
\* want_right and None otherwise, and actions.next is not called.
C6_SuccessPair ==
    (Peeking /\ retLine = 144) =>
        /\ pc = "done" /\ exc = "none"
        /\ context.kind = "ctx"
        /\ result.kind = "pair"
        /\ result.before = (IF left THEN left_context(context, 30) ELSE NoneV)
        /\ result.after = (IF right THEN right_context(context, 30) ELSE NoneV)
        /\ ~Called("actions.next")
        /\ log = <<>>

\* C6's case: want_left = false, want_right = true on a text longer than the
\* window: (None, the 30 characters after the cursor).
C6_Witness ==
    /\ Peeked /\ retLine = 144
    /\ ~left /\ right
    /\ context = AccessibilityContext(Str(LongText), Span(1, 1))
    /\ result.before = NoneV
    /\ result.after = Str(SubSeq(LongText, 2, 31))


\* C7: with the default hook, an absent AXSelectedTextRange and a text AXValue
\* give the context (AXValue, [0,0)): left_context is empty and
\* right_context(n) is the first min(n, len) characters; dictation_peek
\* returns those windows.
C7_AbsentSelection ==
    (gateAtCreate = "on" /\ hookKind = "default" /\ selAbsent /\ axValue.kind = "str") =>
        LET t == axValue.chars
        IN  /\ context = AccessibilityContext(axValue, Span(0, 0))
            /\ \A n \in Windows :
                  /\ left_context(context, n) = Str(<<>>)
                  /\ right_context(context, n) = Str(SubSeq(t, 1, Min(n, Len(t))))
            /\ Peeked =>
                  /\ retLine = 144
                  /\ left => result.before = Str(<<>>)
                  /\ right => result.after = Str(SubSeq(t, 1, Min(30, Len(t))))

\* C7's case: no selected range on a text longer than the window;
\* dictation_peek(true, true) returns ("", its first 30 characters).
C7_Witness ==
    /\ Peeked /\ gateAtCall /\ gateAtCreate = "on"
    /\ hookKind = "default" /\ selAbsent
    /\ axValue = Str(LongText)
    /\ left /\ right
    /\ result = Pair(Str(<<>>), Str(SubSeq(LongText, 1, 30)))

\* accessibility_create_dictation_context returned a context, not None.
ContextReturned ==
    /\ op \in {"dictation_peek", "accessibility_create_dictation_context"}
    /\ pc \in {"check", "except", "done"}
    /\ gateAtCreate # "unread"
    /\ context.kind = "ctx"

\* C8 as stated: every context returned satisfies
\* 0 <= left <= right <= len(content), whatever the element and the hook
\* reported.
C8_AsStated == ContextReturned => CtxInvariant(context)

\* C8, amended: a returned context is the hook's output unchanged, with
\* content and selection that are not None; its bounds are not validated. With
\* the default hook its content is the AXValue read and an absent selected
\* range is [0,0), so the invariant holds for a text AXValue without a
\* selected range.
C8_ReturnedIsHookOutput ==
    ContextReturned =>
        /\ context = adjusted
        /\ context.content.kind # "none"
        /\ context.selection.kind # "none"
        /\ hookKind = "default" =>
              /\ context.content = axValue
              /\ selAbsent => context.selection = Span(0, 0)
              /\ (selAbsent /\ axValue.kind = "str") => CtxInvariant(context)

\* C8's case: the element reported no text, an override supplied a context
\* within bounds, and that context was returned.
C8_Witness ==
    /\ ContextReturned /\ pc = "done"
    /\ op = "accessibility_create_dictation_context"
    /\ axValue = NoneV
    /\ hookKind = "override"
    /\ context = AccessibilityContext(Str(Text(MaxLen)), Span(1, MaxLen))
    /\ CtxInvariant(context)

\* No element attribute was read and the hook was not called.
NoElementRead ==
    \A i \in DOMAIN calls : calls[i] \notin (AccessibilityCalls \ {"ui.focused_element"})

\* C9 as stated: with the gate off, none of dictation_current_element,
\* accessibility_create_dictation_context and dictation_peek calls the focus
\* provider or reads an element attribute.
C9_AsStated ==
    /\ (op = "dictation_current_element" /\ ~gateAtCall) => ~Called("ui.focused_element")
    /\ gateAtCreate = "off" => NoElementRead
    /\ (Peeking /\ ~gateAtCall) =>
          \A i \in DOMAIN calls : calls[i] \notin AccessibilityCalls

\* C9, amended: with the gate off, accessibility_create_dictation_context
\* returns None without reading an element attribute and dictation_peek calls
\* neither the focus provider nor the attribute reader;
\* dictation_current_element is not gated and calls the focus provider
\* whatever the setting.
C9_GatedOperations ==
    /\ gateAtCreate = "off" =>
          /\ NoElementRead
          /\ context = NoneCtx
          /\ exc \in {"none", "FallbackError"}
    /\ (Peeking /\ ~gateAtCall) =>
          \A i \in DOMAIN calls : calls[i] \notin AccessibilityCalls
    /\ (op = "dictation_current_element" /\ pc = "done") =>
          calls = <<"ui.focused_element">>

\* C9's case: accessibility_create_dictation_context called with the gate off
\* on an element that has attributes: None, after the setting read alone.
C9_Witness ==
    /\ op = "accessibility_create_dictation_context" /\ pc = "done"
    /\ gateAtCreate = "off"
    /\ el = El(TRUE)
    /\ context = NoneCtx
    /\ calls = <<"setting.get">>

\* The terminal state of the invocation that has ended.
Terminal ==
    CASE retLine = 121 -> "FallbackOnly"
      [] retLine = 144 -> "Success"
      [] retLine = 129 -> "FallbackOnAbsence"
      [] retLine = 142 -> "FallbackOnError"
      [] OTHER -> IF ErrorLogged /\ calls[Len(calls)] = "actions.next"
                  THEN "FallbackOnError" ELSE "none"

\* What each terminal state hands to the caller.
TerminalResult ==
    CASE Terminal = "FallbackOnly" ->
            ~gateAtCall /\ exc = "none" /\ log = <<>>
            /\ result = fallbackRet /\ IsPair(result)
      [] Terminal = "Success" ->
            gateAtCall /\ exc = "none" /\ context.kind = "ctx"
            /\ result = Pair(before, after) /\ IsPair(result)
            /\ ~Called("actions.next")
      [] Terminal = "FallbackOnAbsence" ->
            gateAtCall /\ exc = "none" /\ context = NoneCtx /\ log = <<Warning>>
            /\ result = fallbackRet /\ IsPair(result)
      [] Terminal = "FallbackOnError" ->
            /\ ErrorLogged
            /\ \/ exc = "none" /\ retLine = 142 /\ result = fallbackRet /\ IsPair(result)
               \/ exc = "FallbackError" /\ retLine = 0 /\ result = NoResult
      [] OTHER -> FALSE

\* C10, the state part: an invocation that has not ended can take its next
\* step, and one that has ended is in one of the four terminal states with
\* that state's result (in FallbackOnError, what the fallback returned, or
\* the fallback's own failure).
C10_TerminalState ==
    /\ (Peeking /\ pc # "done") => ENABLED Step
    /\ Peeked => TerminalResult

\* C10: every dictation_peek invocation ends, in one of the four terminal
\* states, with the accessibility pair or what the fallback produced.
C10_Terminates == [](C10_TerminalState) /\ (Peeking ~> Peeked)

\* C10's case: an attribute read failed, the invocation ended in
\* FallbackOnError with the fallback's pair.
C10_Witness ==
    /\ Peeked /\ gateAtCall
    /\ Terminal = "FallbackOnError"
    /\ calls[Len(calls) - 3] = "el.get:AXValue"
    /\ log = <<Error("RuntimeError")>>
    /\ result = fallbackRet /\ IsPair(result)


\* C11: in an invocation that read the gate off, nothing is written to the
\* diagnostics sink, whatever actions.next does.
C11_DisabledIsSilent == (Peeking /\ ~gateAtCall) => log = <<>>

\* C12: without a context exactly one warning and no error is printed, before
\* actions.next is called; a caught failure is printed as an error with its
\* kind before actions.next is called; on the Success path nothing is printed.
C12_DiagnosticsMatchCause ==
    Peeking =>
        /\ (\E i \in DOMAIN log : log[i] = Warning) => log = <<Warning>>
        /\ \A i \in DOMAIN log : log[i].level = "error" => log[i].kind # "none"
        /\ \A i \in DOMAIN calls :
              (calls[i] = "actions.next" /\ ~(i = 2 /\ ~gateAtCall)) =>
                  calls[i - 1] \in {"print", "traceback.print_exc"}
        /\ retLine = 144 => log = <<>>

\* C15: actions.next is called at most once in an invocation: once on the
\* three fallback paths, never on the Success path, and a failure it raises is
\* not caught and answered by a second call.
C15_FallbackAtMostOnce ==
    Peeking =>
        /\ Len(nextArgs) <= 1
        /\ (pc = "done" /\ retLine \in {121, 129, 142}) => Len(nextArgs) = 1
        /\ retLine = 144 => Len(nextArgs) = 0

\* A warning was printed: the FallbackOnAbsence path was taken.
Warned == \E i \in DOMAIN log : log[i] = Warning

\* The hook returned a context that misses its content or its selection.
MissingAfterCorrection ==
    HookReturned /\ (adjusted.content.kind = "none" \/ adjusted.selection.kind = "none")

\* The hook returned a context with a text content and a Span selection.
UsableAfterCorrection ==
    HookReturned /\ adjusted.content.kind = "str" /\ adjusted.selection.kind = "span"

\* The pair made of the context's windows, each under its flag.
AccessibilityPair(c) ==
    Pair(IF left THEN left_context(c, 30) ELSE NoneV,
         IF right THEN right_context(c, 30) ELSE NoneV)

\* C13 as stated: the warning path is taken only for a None element, an
\* element without attributes or a field missing after correction, whatever
\* happens to the setting during the invocation; a gate on at line 120 and a
\* usable corrected context give the accessibility pair.
C13_AsStated ==
    /\ (Peeking /\ Warned) =>
          (el.kind = "none" \/ ~el.hasAttrs \/ MissingAfterCorrection)
    /\ (Peeked /\ gateAtCall /\ UsableAfterCorrection) =>
          (retLine = 144 /\ result = AccessibilityPair(adjusted))

\* C13, amended: the warning path is taken only when
\* accessibility_create_dictation_context reads the setting off (it changed
\* after line 120), the element is None or has no attributes, or a field is
\* missing after correction; with the gate on at both reads and a corrected
\* context holding a text and a Span, the accessibility pair is returned and
\* nothing is printed.
C13_WarningCauses ==
    /\ (Peeking /\ Warned) =>
          \/ gateAtCreate = "off"
          \/ (gateAtCreate = "on" /\ (el.kind = "none" \/ ~el.hasAttrs))
          \/ (gateAtCreate = "on" /\ MissingAfterCorrection)
    /\ (Peeked /\ gateAtCall /\ gateAtCreate = "on" /\ UsableAfterCorrection) =>
          (retLine = 144 /\ result = AccessibilityPair(adjusted) /\ log = <<>>)

\* C13's case: the gate was on at line 120 and off at line 79; the element
\* has attributes, and the invocation warned and fell back.
C13_Witness ==
    /\ Peeked /\ gateAtCall /\ gateAtCreate = "off"
    /\ el = El(TRUE)
    /\ log = <<Warning>>
    /\ retLine = 129 /\ result = fallbackRet

\* C14: whatever the previous invocation read, an invocation takes the
\* FallbackOnly path (actions.next right after the setting read) exactly when
\* it reads the setting off itself.
C14_GateReadEachCall ==
    Peeking =>
        /\ calls[1] = "setting.get"
        /\ ~gateAtCall <=> (Len(calls) >= 2 /\ calls[2] = "actions.next")
        /\ gateAtCall <=> (Len(calls) = 1 \/ calls[2] = "ui.focused_element")

\* C14's case: the previous invocation read the gate on, this one read it off
\* and delegated at line 121.
C14_Witness ==
    /\ Peeked /\ lastGate /\ ~gateAtCall
    /\ calls = <<"setting.get", "actions.next">>
    /\ retLine = 121 /\ result = fallbackRet

\* C16: the pair returned is never a mixture: it is the accessibility pair
\* (both windows, each under its flag) or the pair actions.next returned; a
\* left window computed before right_context raised is discarded.
C16_NoMixture ==
    (Peeked /\ exc = "none") =>
        \/ /\ retLine = 144
           /\ ~Called("actions.next")
           /\ result = AccessibilityPair(context)
        \/ /\ retLine \in {121, 129, 142}
           /\ result = fallbackRet
           /\ result \in FallbackPairs

\* C16's case: left_context returned "a", right_context raised on a selection
\* without .right, and the fallback's pair came back instead.
C16_Witness ==
    /\ Peeked /\ left /\ right
    /\ context.selection = HalfSpan
    /\ before = Str(<<"a">>) /\ after = NoneV
    /\ log = <<Error("TypeError")>>
    /\ retLine = 142 /\ result = fallbackRet /\ result.before # before

IsPrefix(a, b) == Len(a) <= Len(b) /\ a = SubSeq(b, 1, Len(a))

\* The calls, in order, to the collaborators C17 names.
OrderedCalls ==
    SelectSeq(calls, LAMBDA c : c \in {"setting.get", "ui.focused_element",
                                       "el.get:AXSelectedTextRange", "el.get:AXValue",
                                       "accessibility_adjust_context_for_application"})

\* The reads happen only with the gate on and an element with attributes.
ReadsGuarded ==
    Called("el.get:AXSelectedTextRange") =>
        (gateAtCall /\ gateAtCreate = "on" /\ el.kind = "el" /\ el.hasAttrs)

\* C17 as stated: gate read, target-element resolution, selected-range read,
\* text-value read, hook, in this order and each at most once.
C17_AsStated ==
    Peeking =>
        /\ IsPrefix(OrderedCalls,
                    <<"setting.get", "ui.focused_element",
                      "el.get:AXSelectedTextRange", "el.get:AXValue",
                      "accessibility_adjust_context_for_application">>)
        /\ ReadsGuarded

\* C17, amended: gate read, target-element resolution, a second gate read
\* inside accessibility_create_dictation_context, then (only with the gate on
\* at both reads and an element with attributes) selected-range read,
\* text-value read, hook; in this order, the gate read at most twice and the
\* others at most once.
C17_CallOrder ==
    Peeking =>
        /\ IsPrefix(OrderedCalls,
                    <<"setting.get", "ui.focused_element", "setting.get",
                      "el.get:AXSelectedTextRange", "el.get:AXValue",
                      "accessibility_adjust_context_for_application">>)
        /\ ReadsGuarded

\* C17's case: a Success invocation made all six calls.
C17_Witness ==
    /\ Peeked /\ retLine = 144
    /\ Len(OrderedCalls) = 6
    /\ OrderedCalls[6] = "accessibility_adjust_context_for_application"

============================================================================
